---- MODULE Spec2Model ----
(***************************************************************************)
(* JUnit ingestion and reconciliation: the in-memory store (MemStorage),   *)
(* the routes that create runs, process batches of test cases and patch    *)
(* failure analyses, the client upload flow that slices a parsed document *)
(* into batches, the batch route taken await by await with two requests    *)
(* in flight, and the XML parser over small documents.                     *)
(***************************************************************************)
EXTENDS Integers, Sequences, FiniteSets, TLC

VARIABLES testRuns, testCases, failureAnalyses,
          currentTestRunId, currentTestCaseId, currentFailureAnalysisId,
          upload, last, submits, patches, handlers, xmlDoc, parsed,
          testSuites, currentTestSuiteId,
          manualTestCases, currentManualTestCaseId, issued

vars == <<testRuns, testCases, failureAnalyses,
          currentTestRunId, currentTestCaseId, currentFailureAnalysisId,
          upload, last, submits, patches, handlers, xmlDoc, parsed,
          testSuites, currentTestSuiteId,
          manualTestCases, currentManualTestCaseId, issued>>

store == <<testRuns, testCases, failureAnalyses,
           currentTestRunId, currentTestCaseId, currentFailureAnalysisId>>

\* the state of the requests in flight and of the parser, which a handler
\* that runs without yielding leaves alone
\* the maps of the manual testing pages with their id counters, and issued:
\* for each of the two, the ids the create responses carried, in order
manual == <<testSuites, currentTestSuiteId,
            manualTestCases, currentManualTestCaseId, issued>>

elsewhere == <<handlers, xmlDoc, parsed, manual>>

(* ---------------------------- bounds ----------------------------------- *)
MaxRuns == 2
MaxSubmits == 2
MaxPatches == 1
MaxHead == 1
\* testcase elements directly under one testsuite element
MaxCases == 1
\* testsuite elements directly under the testsuites element
MaxSuites == 2
\* records created in each of the maps of the manual testing pages
MaxCreates == 3

(* ------------------------ program constants ---------------------------- *)
\* junit-upload.tsx: const batchSize = 100
batchSize == 100
\* routes: testCases.length < 100 ? 'completed' : 'running'
SmallBatchLimit == 100

Null == "null"
NoRun == [id |-> 0, type |-> Null, status |-> Null, totalTests |-> 0,
          passedTests |-> 0, failedTests |-> 0, skippedTests |-> 0,
          xmlContent |-> Null]

\* ParsedTestCase['status'] of the XML parser
ParsedStatuses == {"passed", "failed", "skipped", "error"}
\* the status column of test_cases: the parser's statuses plus 'flaky'
CaseStatuses == ParsedStatuses \cup {"flaky"}
\* the status column of test_runs
RunStatuses == {"pending", "running", "completed", "failed"}
\* the kanban board's columns
defaultColumns == {"new_failures", "investigating", "in_progress", "resolved"}

(* ------------------------- request payloads ---------------------------- *)
\* the value of a property the JSON object does not have
Undefined == "undefined"
Payload(n, s) == [name |-> n, status |-> s]
\* a JSON null as an element of testCases
NullCase == [null |-> TRUE]

\* a batch that starts with head and is padded with passed cases to length n
Fill(head, n) ==
    [k \in 1..(IF Len(head) >= n THEN Len(head) ELSE n) |->
        IF k <= Len(head) THEN head[k] ELSE Payload("pad", "passed")]

Heads == UNION {[1..k -> {Payload("t", s) : s \in CaseStatuses}] : k \in 0..MaxHead}

\* the 15-case sample report: 3 failure and 1 error cases, 11 passing
SampleBatch ==
    Fill(<<Payload("f1", "failed"), Payload("f2", "failed"),
           Payload("f3", "failed"), Payload("e1", "error")>>, 15)

\* bodies the route's caller may send that no parser output has: a null
\* element after a failed case, and cases without a name or without a status
\* after a valid one
MalformedBatches ==
    {<<Payload("t", "failed"), NullCase>>,
     <<Payload("t", "passed"), Payload(Undefined, "failed")>>,
     <<Payload("t", "passed"), Payload("u", Undefined)>>}

Batches ==
    Heads \cup {SampleBatch} \cup MalformedBatches
          \cup {Fill(<<>>, batchSize - 1), Fill(<<>>, batchSize)}

(* ------------------------------ MemStorage ----------------------------- *)
\* a counter the request body leaves out
NoCount == -1
\* v || 0
OrZero(v) == IF v = NoCount THEN 0 ELSE v

createTestRun(runs, id, insertTestRun) ==
    (id :> [id |-> id,
            type |-> insertTestRun.type,
            status |-> insertTestRun.status,
            totalTests |-> OrZero(insertTestRun.totalTests),
            passedTests |-> OrZero(insertTestRun.passedTests),
            failedTests |-> OrZero(insertTestRun.failedTests),
            skippedTests |-> OrZero(insertTestRun.skippedTests),
            xmlContent |-> insertTestRun.xmlContent]) @@ runs

\* a lookup that answers an unknown id with an empty run of that id
getTestRunOrDefault(id) ==
    IF id \in DOMAIN testRuns THEN testRuns[id] ELSE [NoRun EXCEPT !.id = id]

getTestRun(id) == IF id \in DOMAIN testRuns THEN testRuns[id] ELSE NoRun

\* a store that keeps one record of counters for all runs
updateEveryTestRun(runs, id, updates) ==
    IF id \in DOMAIN runs
    THEN [r \in DOMAIN runs |->
            [f \in DOMAIN runs[r] |->
                IF f \in DOMAIN updates THEN updates[f] ELSE runs[r][f]]]
    ELSE runs

\* { ...testRun, ...updates }
updateTestRun(runs, id, updates) ==
    IF id \in DOMAIN runs
    THEN [runs EXCEPT ![id] =
            [f \in DOMAIN runs[id] |->
                IF f \in DOMAIN updates THEN updates[f] ELSE runs[id][f]]]
    ELSE runs

\* st is the part of the store a batch writes:
\* [testCases, failureAnalyses, currentTestCaseId, currentFailureAnalysisId],
\* and threw: an exception left the case loop.
\* Of a test case the model keeps the fields the routes read: id, name,
\* status and testRunId
\* a store that keeps one status for all the cases of a run
createTestCaseRestamping(st, insertTestCase) ==
    [st EXCEPT
        !.currentTestCaseId = @ + 1,
        !.testCases =
            (st.currentTestCaseId :>
                [id |-> st.currentTestCaseId,
                 name |-> insertTestCase.name,
                 status |-> insertTestCase.status,
                 testRunId |-> insertTestCase.testRunId])
            @@ [i \in DOMAIN @ |->
                    IF @[i].testRunId = insertTestCase.testRunId
                    THEN [@[i] EXCEPT !.status = insertTestCase.status]
                    ELSE @[i]]]

createTestCase(st, insertTestCase) ==
    [st EXCEPT
        !.currentTestCaseId = @ + 1,
        !.testCases =
            (st.currentTestCaseId :>
                [id |-> st.currentTestCaseId,
                 name |-> insertTestCase.name,
                 status |-> insertTestCase.status,
                 testRunId |-> insertTestCase.testRunId]) @@ @]

createFailureAnalysis(st, insertFailureAnalysis) ==
    [st EXCEPT
        !.currentFailureAnalysisId = @ + 1,
        !.failureAnalyses =
            (st.currentFailureAnalysisId :>
                [id |-> st.currentFailureAnalysisId,
                 testCaseId |-> insertFailureAnalysis.testCaseId,
                 status |-> insertFailureAnalysis.status,
                 assignedTo |-> insertFailureAnalysis.assignedTo,
                 resolution |-> insertFailureAnalysis.resolution]) @@ @]

\* the ids of the cases of a run
getTestCasesByRunId(cases, testRunId) ==
    {i \in DOMAIN cases : cases[i].testRunId = testRunId}

\* { ...analysis, ...updates }
updateFailureAnalysis(fas, id, updates) ==
    IF id \in DOMAIN fas
    THEN [fas EXCEPT ![id] =
            [f \in DOMAIN fas[id] |->
                IF f \in DOMAIN updates THEN updates[f] ELSE fas[id][f]]]
    ELSE fas

(* --------------------- POST /api/junit/process/:id --------------------- *)
\* the body of the case loop: createTestCase, and createFailureAnalysis for
\* failed and flaky tests
ProcessCase(st, testRunId, tc) ==
    \* tc.name of null is a TypeError
    IF tc = NullCase THEN [st EXCEPT !.threw = TRUE] ELSE
    LET s1 == createTestCase(st, [testRunId |-> testRunId,
                                  name |-> tc.name,
                                  status |-> tc.status])
        testCase == s1.testCases[st.currentTestCaseId]
    IN  IF tc.status = "failed" \/ tc.status = "flaky"
        THEN createFailureAnalysis(s1, [testCaseId |-> testCase.id,
                                        status |-> "new_failures",
                                        assignedTo |-> Null,
                                        resolution |-> Null])
        ELSE s1

RECURSIVE ProcessCases(_, _, _, _, _)
\* for (const tc of testCases) over batch[lo..hi], in order. The range is
\* halved, and the first half is evaluated before the second half starts, to
\* keep the evaluation shallow; an exception ends the loop
ProcessCases(st, testRunId, batch, lo, hi) ==
    IF lo > hi THEN st
    ELSE IF lo = hi THEN ProcessCase(st, testRunId, batch[lo])
    ELSE LET mid == (lo + hi) \div 2
             firstHalf == ProcessCases(st, testRunId, batch, lo, mid)
         IN  IF ~firstHalf.threw
             THEN ProcessCases(firstHalf, testRunId, batch, mid + 1, hi)
             ELSE firstHalf

CountStatus(cases, ids, s) == Cardinality({i \in ids : cases[i].status = s})

\* the status the route writes after a batch
BatchRunStatus(batch) ==
    IF Len(batch) < SmallBatchLimit THEN "completed" ELSE "running"

\* the counters and status the route writes after the case loop
RunUpdates(cases, testRunId, batch) ==
    LET allTestCases == getTestCasesByRunId(cases, testRunId)
    IN  [status |-> BatchRunStatus(batch),
         totalTests |-> Cardinality(allTestCases),
         passedTests |-> CountStatus(cases, allTestCases, "passed"),
         failedTests |-> CountStatus(cases, allTestCases, "failed"),
         skippedTests |-> CountStatus(cases, allTestCases, "skipped")]

Other ==
    [op |-> "other", run |-> 0, batch |-> <<>>, isFinalBatch |-> FALSE,
     found |-> FALSE, before |-> NoRun, resubmit |-> FALSE,
     analysesBefore |-> 0, firstCaseId |-> 0, firstAnalysisId |-> 0,
     response |-> 0, totalProcessed |-> 0]

\* a run was created under id
Created(id) == [Other EXCEPT !.op = "create", !.run = id]

\* the whole handler; isFinalBatch is the caller's knowledge of whether more
\* batches follow, which the request does not carry
JunitProcess(id, batch, isFinalBatch) ==
    LET testRun == getTestRun(id)
        found == testRun # NoRun
        st0 == [testCases |-> testCases,
                failureAnalyses |-> failureAnalyses,
                currentTestCaseId |-> currentTestCaseId,
                currentFailureAnalysisId |-> currentFailureAnalysisId,
                threw |-> FALSE]
        st1 == ProcessCases(st0, testRun.id, batch, 1, Len(batch))
    IN  /\ submits < MaxSubmits
        /\ submits' = submits + 1
        /\ last' = [op |-> "process", run |-> id, batch |-> batch,
                    isFinalBatch |-> isFinalBatch, found |-> found,
                    before |-> testRun,
                    resubmit |-> /\ last.op = "process"
                                 /\ last.found
                                 /\ last.run = id
                                 /\ last.batch = batch,
                    analysesBefore |-> Cardinality(DOMAIN failureAnalyses),
                    firstCaseId |-> currentTestCaseId,
                    firstAnalysisId |-> currentFailureAnalysisId,
                    response |-> IF ~found THEN 404
                                 ELSE IF st1.threw THEN 500 ELSE 200,
                    totalProcessed |->
                        IF found /\ ~st1.threw
                        THEN RunUpdates(st1.testCases, id, batch).totalTests
                        ELSE 0]
        /\ IF ~found
           THEN UNCHANGED store
           ELSE /\ testCases' = st1.testCases
                /\ failureAnalyses' = st1.failureAnalyses
                /\ currentTestCaseId' = st1.currentTestCaseId
                /\ currentFailureAnalysisId' = st1.currentFailureAnalysisId
                /\ testRuns' = IF st1.threw THEN testRuns
                                ELSE updateTestRun(testRuns, id,
                                         RunUpdates(st1.testCases, id, batch))
                /\ UNCHANGED currentTestRunId

\* a caller of the route other than the upload flow
SubmitBatch ==
    \E id \in 1..MaxRuns, batch \in Batches, isFinalBatch \in BOOLEAN :
        /\ JunitProcess(id, batch, isFinalBatch)
        /\ UNCHANGED <<upload, patches, elsewhere>>

(* ----------------------------- xml-parser ------------------------------ *)
\* A node of the DOM: its tag, its attributes and its child elements in
\* document order
Element(tag, attrs, kids) == [tag |-> tag, attrs |-> attrs, kids |-> kids]

\* the Document node over a root element
Document(root) == Element("#document", <<>>, <<root>>)

RECURSIVE querySelectorAll(_, _)
\* the descendants of node with the given tag, in document order
querySelectorAll(node, tag) ==
    LET RECURSIVE Over(_)
        Over(k) ==
            IF k > Len(node.kids) THEN <<>>
            ELSE (IF node.kids[k].tag = tag THEN <<node.kids[k]>> ELSE <<>>)
                    \o querySelectorAll(node.kids[k], tag)
                    \o Over(k + 1)
    IN  Over(1)

\* querySelector(tag) is not null
hasElement(node, tag) == querySelectorAll(node, tag) # <<>>

getAttribute(node, a) ==
    IF a \in DOMAIN node.attrs THEN node.attrs[a] ELSE Null

\* the outcome markers a testcase element may hold
Markers == <<"failure", "error", "skipped">>

\* a testcase element with the markers of the set ms as children
CaseElement(ms) ==
    Element("testcase", [name |-> "t"],
            SelectSeq([k \in 1..Len(Markers) |-> Element(Markers[k], <<>>, <<>>)],
                      LAMBDA e : e.tag \in ms))

\* The texts of the time attribute. Of each: tenths, the value it writes in
\* tenths of a millisecond; and the double product parseFloat(text) * 1000
\* as its floor and the sign of (its fraction - 1/2). The doubles nearest to
\* 1.005 and 4.0005 give 1004.9999999999999 and 4000.4999999999995, the one
\* nearest to 2.0005 gives 2000.5000000000002; the other products are exact
TimeTexts ==
    <<[text |-> "0",      tenths |-> 0,     floor |-> 0,    half |-> -1],
      [text |-> "1.234",  tenths |-> 12340, floor |-> 1234, half |-> -1],
      [text |-> "1.005",  tenths |-> 10050, floor |-> 1004, half |-> 1],
      [text |-> "0.0005", tenths |-> 5,     floor |-> 0,    half |-> 0],
      [text |-> "1.2345", tenths |-> 12345, floor |-> 1234, half |-> 0],
      [text |-> "2.0005", tenths |-> 20005, floor |-> 2000, half |-> 1],
      [text |-> "4.0005", tenths |-> 40005, floor |-> 4000, half |-> -1]>>

\* the entry of a text
TimeOf(text) == TimeTexts[CHOOSE k \in 1..Len(TimeTexts) : TimeTexts[k].text = text]

\* a passing testcase element with a time attribute
TimedCase(text) == Element("testcase", [name |-> "t", time |-> text], <<>>)

CaseElements == {CaseElement(ms) : ms \in SUBSET {Markers[k] : k \in 1..Len(Markers)}}

SuiteElement(kids) == Element("testsuite", [name |-> "s"], kids)

\* the decimal texts of the count attributes, and parseInt of them
DigitTexts == <<"0", "1", "2", "3">>
parseInt(text) == (CHOOSE n \in 1..Len(DigitTexts) : DigitTexts[n] = text) - 1

\* the number of kids that are testcase elements with exactly the markers ms
CountKids(kids, ms) ==
    Cardinality({k \in 1..Len(kids) : kids[k] = CaseElement(ms)})

\* a suite whose count attributes say what its cases are
DeclaredSuite(kids) ==
    Element("testsuite",
            [name |-> "s",
             tests |-> DigitTexts[Len(kids) + 1],
             failures |-> DigitTexts[CountKids(kids, {"failure"}) + 1],
             errors |-> DigitTexts[CountKids(kids, {"error"}) + 1],
             skipped |-> DigitTexts[CountKids(kids, {"skipped"}) + 1]],
            kids)

\* three cases of which one fails, under attributes that declare two failures
OverstatedSuite ==
    Element("testsuite",
            [name |-> "s", tests |-> "3", failures |-> "2",
             errors |-> "0", skipped |-> "0"],
            <<CaseElement({"failure"}), CaseElement({}), CaseElement({})>>)

\* suites with count attributes
CountedSuites ==
    {DeclaredSuite(cs) :
        cs \in UNION {[1..n -> {CaseElement({}), CaseElement({"failure"}),
                                CaseElement({"error"}), CaseElement({"skipped"})}] :
                        n \in 0..MaxCases}}
        \cup {OverstatedSuite}

\* suites of testcase elements only
FlatSuites ==
    {SuiteElement(cs) : cs \in UNION {[1..n -> CaseElements] : n \in 0..MaxCases}}

\* suites that hold a suite after their own cases
NestedSuites ==
    {SuiteElement(outer.kids \o <<inner>>) : outer \in FlatSuites, inner \in FlatSuites}

\* the documents: a bare testsuite root, a testsuites root over suites, or a
\* root that holds no suite at all
Documents ==
    {Document(r) : r \in FlatSuites \cup NestedSuites \cup CountedSuites}
        \cup {Document(Element("testsuites", <<>>, <<r>>)) :
                    r \in FlatSuites \cup NestedSuites \cup CountedSuites}
        \cup {Document(Element("report", <<>>, <<>>))}
        \cup {Document(SuiteElement(<<TimedCase(TimeTexts[k].text)>>)) :
                    k \in 1..Len(TimeTexts)}
        \cup {Document(Element("testsuites", <<>>, ss)) :
                    ss \in UNION {[1..n -> FlatSuites] : n \in {0} \cup (2..MaxSuites)}}

\* the product cut to its integer part
MathTrunc(x) == x.floor

\* Math.round(x) of a double product: floor(x + 0.5)
MathRoundProduct(x) == IF x.half >= 0 THEN x.floor + 1 ELSE x.floor

\* Math.round(parseFloat(caseElement.getAttribute('time') || '0') * 1000)
Duration(caseElement) ==
    LET text == getAttribute(caseElement, "time")
    IN  MathRoundProduct(TimeOf(IF text = Null THEN "0" ELSE text))

\* status starts as passed; each of the three checks that finds its element
\* assigns status
parseTestCase(caseElement) ==
    LET status0 == "passed"
        status1 == IF hasElement(caseElement, "failure") THEN "failed" ELSE status0
        status2 == IF hasElement(caseElement, "error") THEN "error" ELSE status1
        status3 == IF hasElement(caseElement, "skipped") THEN "skipped" ELSE status2
        name == getAttribute(caseElement, "name")
    IN  [name |-> IF name = Null THEN "Unknown Test" ELSE name,
         duration |-> Duration(caseElement),
         status |-> status3]

\* parseInt(suiteElement.getAttribute(a) || '0')
CountAttribute(suiteElement, a) ==
    LET text == getAttribute(suiteElement, a)
    IN  parseInt(IF text = Null THEN "0" ELSE text)

parseTestSuite(suiteElement) ==
    LET testCaseElements == querySelectorAll(suiteElement, "testcase")
        name == getAttribute(suiteElement, "name")
    IN  [name |-> IF name = Null THEN "Unknown Suite" ELSE name,
         tests |-> CountAttribute(suiteElement, "tests"),
         failures |-> CountAttribute(suiteElement, "failures"),
         errors |-> CountAttribute(suiteElement, "errors"),
         skipped |-> CountAttribute(suiteElement, "skipped"),
         testCases |-> [k \in 1..Len(testCaseElements) |->
                            parseTestCase(testCaseElements[k])]]

\* the testsuite elements parseJUnitXML visits: those under the first
\* testsuites element if there is one, else those of the document
testSuiteElements(doc) ==
    IF hasElement(doc, "testsuites")
    THEN querySelectorAll(querySelectorAll(doc, "testsuites")[1], "testsuite")
    ELSE querySelectorAll(doc, "testsuite")

RECURSIVE SumField(_, _, _)
\* result.total += testSuite.field over the first n suites
SumField(parsedSuites, field, n) ==
    IF n = 0 THEN 0
    ELSE SumField(parsedSuites, field, n - 1) + parsedSuites[n][field]

parseJUnitXML(doc) ==
    LET suites == testSuiteElements(doc)
        parsedSuites == [k \in 1..Len(suites) |-> parseTestSuite(suites[k])]
    IN  [testSuites |-> parsedSuites,
         totalTests |-> SumField(parsedSuites, "tests", Len(parsedSuites)),
         totalFailures |-> SumField(parsedSuites, "failures", Len(parsedSuites)),
         totalErrors |-> SumField(parsedSuites, "errors", Len(parsedSuites)),
         totalSkipped |-> SumField(parsedSuites, "skipped", Len(parsedSuites))]

\* the document has no parsererror element and has a testsuites or a
\* testsuite element
validateJUnitXML(doc) ==
    /\ ~hasElement(doc, "parsererror")
    /\ hasElement(doc, "testsuites") \/ hasElement(doc, "testsuite")

\* no document validated or parsed yet
NotParsed ==
    [done |-> FALSE, result |-> [testSuites |-> <<>>],
     validated |-> FALSE, valid |-> FALSE,
     summarized |-> FALSE, summary |-> [totalTests |-> 0]]

\* the parser is a function of the document alone
ParseDocument ==
    /\ ~parsed.done
    /\ parsed' = [parsed EXCEPT !.done = TRUE, !.result = parseJUnitXML(xmlDoc)]
    /\ UNCHANGED <<store, upload, last, submits, patches, handlers, xmlDoc,
                   manual>>

\* and so is the validation
ValidateDocument ==
    /\ ~parsed.validated
    /\ parsed' = [parsed EXCEPT !.validated = TRUE,
                                !.valid = validateJUnitXML(xmlDoc)]
    /\ UNCHANGED <<store, upload, last, submits, patches, handlers, xmlDoc,
                   manual>>

(* ------------------------- run creation routes ------------------------- *)
\* an uploaded text: a well-formed report, or one cut off inside a tag
WellFormedXml == "xml"
TruncatedXml == "<testsuites><testsuite"
XmlTexts == {WellFormedXml, TruncatedXml}
\* a well-formed text with no suite element
EmptyReportXml == "<report/>"

\* parser.parseFromString(xmlContent, 'text/xml'): a text that is not
\* well-formed gives a document with a parsererror element
parseFromString(xmlContent) ==
    IF xmlContent = TruncatedXml
    THEN Document(Element("parsererror", <<>>, <<>>))
    ELSE IF xmlContent = EmptyReportXml
    THEN Document(Element("report", <<>>, <<>>))
    ELSE Document(SuiteElement(<<>>))


\* POST /api/junit/upload: the file is stored as it is, nothing parses it
JunitUpload ==
    \E xmlContent \in XmlTexts :
        /\ currentTestRunId <= MaxRuns
        /\ testRuns' = createTestRun(testRuns, currentTestRunId,
                           [type |-> "automated", status |-> "running",
                            totalTests |-> 0, passedTests |-> 0,
                            failedTests |-> 0, skippedTests |-> 0,
                            xmlContent |-> xmlContent])
        /\ currentTestRunId' = currentTestRunId + 1
        /\ last' = Created(currentTestRunId)
        /\ UNCHANGED <<testCases, failureAnalyses, currentTestCaseId,
                       currentFailureAnalysisId, upload, submits, patches,
                       elsewhere>>

\* POST /api/test-runs with a body the insert schema accepts
PostTestRun(body) ==
    /\ currentTestRunId <= MaxRuns
    /\ testRuns' = createTestRun(testRuns, currentTestRunId, body)
    /\ currentTestRunId' = currentTestRunId + 1
    /\ UNCHANGED <<testCases, failureAnalyses, currentTestCaseId,
                   currentFailureAnalysisId, submits, patches, elsewhere>>

CreateTestRun ==
    \E status \in {"pending", "failed"} :
        /\ PostTestRun([type |-> "manual", status |-> status,
                        totalTests |-> NoCount, passedTests |-> NoCount,
                        failedTests |-> NoCount, skippedTests |-> NoCount,
                        xmlContent |-> Null])
        /\ last' = Created(currentTestRunId)
        /\ UNCHANGED <<upload, elsewhere>>

(* ---------------------- client upload flow ----------------------------- *)
\* a parsed document whose suites declare the counts their cases have: its
\* cases and the totals the parser reports
Doc(cases) ==
    [testCases |-> cases,
     totalTests |-> Len(cases),
     totalFailures |-> Cardinality({i \in 1..Len(cases) : cases[i].status = "failed"}),
     totalErrors |-> Cardinality({i \in 1..Len(cases) : cases[i].status = "error"}),
     totalSkipped |-> Cardinality({i \in 1..Len(cases) : cases[i].status = "skipped"})]

Docs ==
    {Doc(c) : c \in {h \in Heads : \A i \in 1..Len(h) : h[i].status \in ParsedStatuses}
                    \cup {SampleBatch, Fill(<<>>, batchSize), Fill(<<>>, batchSize + 1),
                          Fill(<<>>, 2 * batchSize)}}

\* Math.round(n / d) for d > 0: the nearest integer, a half going up
MathRound(n, d) == (2 * n + d) \div (2 * d)

\* passRate is kept in hundredths of a percent, the unit of
\* Math.round(passRate * 100) before the division by 100
getTestSummary(parsedXML) ==
    LET passedTests == parsedXML.totalTests - parsedXML.totalFailures
                          - parsedXML.totalErrors - parsedXML.totalSkipped
    IN  [totalTests |-> parsedXML.totalTests,
         passedTests |-> passedTests,
         failedTests |-> parsedXML.totalFailures,
         errorTests |-> parsedXML.totalErrors,
         skippedTests |-> parsedXML.totalSkipped,
         passRate |-> IF parsedXML.totalTests > 0
                      THEN MathRound(passedTests * 100 * 100, parsedXML.totalTests)
                      ELSE 0]

\* the summary of a parsed document
SummarizeDocument ==
    /\ parsed.done
    /\ ~parsed.summarized
    /\ parsed' = [parsed EXCEPT !.summarized = TRUE,
                                !.summary = getTestSummary(parsed.result)]
    /\ UNCHANGED <<store, upload, last, submits, patches, handlers, xmlDoc,
                   manual>>

\* testCases.slice(i, i + batchSize), i counted from 0
Slice(cases, i) ==
    [k \in 1..(IF Len(cases) - i < batchSize THEN Len(cases) - i ELSE batchSize)
        |-> cases[i + k]]

\* validate, parse, POST /api/test-runs, flatten the suites into testCases
UploadFlowStart ==
    \E parsedXML \in Docs :
        LET summary == getTestSummary(parsedXML)
        IN  /\ upload.pc \in {"idle", "done", "error"}
            /\ validateJUnitXML(parseFromString(WellFormedXml))
            /\ PostTestRun([type |-> "automated", status |-> "running",
                            totalTests |-> summary.totalTests,
                            passedTests |-> summary.passedTests,
                            failedTests |-> summary.failedTests,
                            skippedTests |-> summary.skippedTests,
                            xmlContent |-> WellFormedXml])
            /\ upload' = [pc |-> IF Len(parsedXML.testCases) > 0
                                 THEN "batching" ELSE "done",
                          run |-> currentTestRunId,
                          testCases |-> parsedXML.testCases,
                          i |-> 0]
            /\ last' = Created(currentTestRunId)

\* the flow throws "Invalid JUnit XML format" before any request is sent
UploadFlowInvalid ==
    \E xmlContent \in XmlTexts \cup {EmptyReportXml} :
        /\ upload.pc \in {"idle", "done", "error"}
        /\ ~validateJUnitXML(parseFromString(xmlContent))
        /\ upload' = [pc |-> "error", run |-> 0, testCases |-> <<>>, i |-> 0]
        /\ last' = Other
        /\ UNCHANGED <<store, submits, patches, elsewhere>>

\* one iteration of the batch loop
UploadFlowBatch ==
    /\ upload.pc = "batching"
    /\ JunitProcess(upload.run, Slice(upload.testCases, upload.i),
                    upload.i + batchSize >= Len(upload.testCases))
    /\ upload' = [upload EXCEPT
                    !.i = @ + batchSize,
                    !.pc = IF upload.i + batchSize < Len(upload.testCases)
                           THEN "batching" ELSE "done"]
    /\ UNCHANGED <<patches, elsewhere>>

(* ------------- POST /api/junit/process/:id, await by await ------------- *)
\* The route awaits every storage call. The storage interface only promises
\* that a call completes; the route takes no lock, so between two awaits of
\* one request another request's handler may run. A request is at one of:
\* idle (not received), loop (before createTestCase of batch[k], or before
\* getTestCasesByRunId when k is past the batch), analysis (before
\* createFailureAnalysis for the case just created), update (before
\* updateTestRun), done (response sent).
Handlers == {"h1", "h2"}

Idle ==
    [pc |-> "idle", run |-> 0, batch |-> <<>>, k |-> 0, testCase |-> 0,
     updates |-> [status |-> Null, totalTests |-> 0, passedTests |-> 0,
                  failedTests |-> 0, skippedTests |-> 0],
     response |-> 0]

\* the bodies of the overlapping requests
ConcBatches == Heads \cup {<<Payload("t", "failed"), NullCase>>}

\* what a step of a handler records of its request
Stepped(id) == [Other EXCEPT !.op = "process", !.run = id]

\* the request arrives: getTestRun, 404 when the run is unknown
HandlerBegin(h) ==
    \E id \in 1..MaxRuns, batch \in ConcBatches :
        LET testRun == getTestRun(id)
        IN  /\ handlers[h].pc = "idle"
            /\ submits < MaxSubmits
            /\ submits' = submits + 1
            /\ handlers' = [handlers EXCEPT ![h] =
                    [Idle EXCEPT
                        !.pc = IF testRun # NoRun THEN "loop" ELSE "done",
                        !.run = id, !.batch = batch, !.k = 1,
                        !.response = IF testRun # NoRun THEN 0 ELSE 404]]
            /\ last' = Stepped(id)
            /\ UNCHANGED <<store, upload, patches, xmlDoc, parsed, manual>>

\* await storage.createTestCase for batch[k]
HandlerCreateCase(h) ==
    LET me == handlers[h]
        tc == me.batch[me.k]
        st0 == [testCases |-> testCases,
                failureAnalyses |-> failureAnalyses,
                currentTestCaseId |-> currentTestCaseId,
                currentFailureAnalysisId |-> currentFailureAnalysisId,
                threw |-> FALSE]
        s1 == createTestCase(st0, [testRunId |-> me.run,
                                   name |-> tc.name,
                                   status |-> tc.status])
    IN  /\ me.pc = "loop"
        /\ me.k <= Len(me.batch)
        /\ last' = Stepped(me.run)
        /\ IF tc = NullCase
           THEN /\ handlers' = [handlers EXCEPT ![h].pc = "done",
                                                ![h].response = 500]
                /\ UNCHANGED <<testCases, currentTestCaseId>>
           ELSE /\ testCases' = s1.testCases
                /\ currentTestCaseId' = s1.currentTestCaseId
                /\ handlers' = [handlers EXCEPT ![h] =
                       IF tc.status = "failed" \/ tc.status = "flaky"
                       THEN [me EXCEPT !.pc = "analysis",
                                       !.testCase = currentTestCaseId]
                       ELSE [me EXCEPT !.k = @ + 1]]
        /\ UNCHANGED <<testRuns, failureAnalyses, currentTestRunId,
                       currentFailureAnalysisId, upload, submits, patches,
                       xmlDoc, parsed, manual>>

\* await storage.createFailureAnalysis for the case just created
HandlerCreateAnalysis(h) ==
    LET me == handlers[h]
        st0 == [testCases |-> testCases,
                failureAnalyses |-> failureAnalyses,
                currentTestCaseId |-> currentTestCaseId,
                currentFailureAnalysisId |-> currentFailureAnalysisId,
                threw |-> FALSE]
        s1 == createFailureAnalysis(st0, [testCaseId |-> me.testCase,
                                          status |-> "new_failures",
                                          assignedTo |-> Null,
                                          resolution |-> Null])
    IN  /\ me.pc = "analysis"
        /\ failureAnalyses' = s1.failureAnalyses
        /\ currentFailureAnalysisId' = s1.currentFailureAnalysisId
        /\ handlers' = [handlers EXCEPT ![h].pc = "loop", ![h].k = @ + 1]
        /\ last' = Stepped(me.run)
        /\ UNCHANGED <<testRuns, testCases, currentTestRunId,
                       currentTestCaseId, upload, submits, patches,
                       xmlDoc, parsed, manual>>

\* await storage.getTestCasesByRunId: the counts are taken of the cases
\* the store holds at this point
HandlerGetCases(h) ==
    LET me == handlers[h]
    IN  /\ me.pc = "loop"
        /\ me.k > Len(me.batch)
        /\ handlers' = [handlers EXCEPT
                ![h].pc = "update",
                ![h].updates = RunUpdates(testCases, me.run, me.batch)]
        /\ last' = Stepped(me.run)
        /\ UNCHANGED <<store, upload, submits, patches, xmlDoc, parsed,
                       manual>>

\* await storage.updateTestRun with the counts taken, then res.json
HandlerUpdate(h) ==
    LET me == handlers[h]
    IN  /\ me.pc = "update"
        /\ testRuns' = updateTestRun(testRuns, me.run, me.updates)
        /\ handlers' = [handlers EXCEPT ![h].pc = "done",
                                        ![h].response = 200]
        /\ last' = Stepped(me.run)
        /\ UNCHANGED <<testCases, failureAnalyses, currentTestRunId,
                       currentTestCaseId, currentFailureAnalysisId,
                       upload, submits, patches, xmlDoc, parsed, manual>>

(* -------------------- PATCH /api/failure-analysis/:id ------------------ *)
\* req.body: a move to a column of the kanban board, or any other field of
\* the row (the route does not validate the body)
PatchBodies ==
    {[status |-> s] : s \in defaultColumns}
        \cup {[testCaseId |-> c] : c \in 1..2}
        \cup {[id |-> 2]}

PatchFailureAnalysis ==
    \E id \in DOMAIN failureAnalyses, updates \in PatchBodies :
        /\ patches < MaxPatches
        /\ patches' = patches + 1
        /\ failureAnalyses' = updateFailureAnalysis(failureAnalyses, id, updates)
        /\ last' = Other
        /\ UNCHANGED <<testRuns, testCases, currentTestRunId, currentTestCaseId,
                       currentFailureAnalysisId, upload, submits, elsewhere>>

(* ------------------- test suites and manual test cases ----------------- *)
\* { ...record, ...updates }: the fields of updates, then the other fields
\* of record
Spread(record, updates) ==
    [f \in DOMAIN record \cup DOMAIN updates |->
        IF f \in DOMAIN updates THEN updates[f] ELSE record[f]]

\* the map without key id
MapDelete(map, id) == [k \in DOMAIN map \ {id} |-> map[k]]

\* { id, ...insertTestSuite, createdAt }
createTestSuite(id, insertTestSuite) == Spread([id |-> id], insertTestSuite)

\* { ...insertManualTestCase, id, createdAt }
createManualTestCase(id, insertManualTestCase) ==
    Spread(insertManualTestCase, [id |-> id])

\* bodies of POST and PATCH /api/test-suites, which the routes do not
\* validate
SuiteBodies == {[name |-> "a"], [name |-> "b"], [name |-> "a", id |-> 1]}

\* insertManualTestCaseSchema.parse(req.body): the schema has no id
ManualTestCaseBodies == {[title |-> "a"], [title |-> "b"]}

\* bodies of PUT /api/manual-test-cases/:id, which the route does not
\* validate
ManualTestCaseUpdates == ManualTestCaseBodies \cup {[id |-> 1]}

\* POST /api/test-suites
PostTestSuite ==
    \E body \in SuiteBodies :
        LET testSuite == createTestSuite(currentTestSuiteId, body)
        IN  /\ currentTestSuiteId <= MaxCreates
            /\ currentTestSuiteId' = currentTestSuiteId + 1
            /\ testSuites' = (currentTestSuiteId :> testSuite) @@ testSuites
            /\ issued' = [issued EXCEPT !.testSuites = Append(@, testSuite.id)]
            /\ UNCHANGED <<store, upload, last, submits, patches, handlers,
                           xmlDoc, parsed, manualTestCases,
                           currentManualTestCaseId>>

\* PATCH /api/test-suites/:id
PatchTestSuite ==
    \E id \in DOMAIN testSuites, body \in SuiteBodies :
        /\ testSuites' = [testSuites EXCEPT ![id] = Spread(@, body)]
        /\ UNCHANGED <<store, upload, last, submits, patches, handlers,
                       xmlDoc, parsed, currentTestSuiteId, manualTestCases,
                       currentManualTestCaseId, issued>>

\* DELETE /api/test-suites/:id
DeleteTestSuite ==
    \E id \in DOMAIN testSuites :
        /\ testSuites' = MapDelete(testSuites, id)
        /\ UNCHANGED <<store, upload, last, submits, patches, handlers,
                       xmlDoc, parsed, currentTestSuiteId, manualTestCases,
                       currentManualTestCaseId, issued>>

\* POST /api/manual-test-cases
PostManualTestCase ==
    \E validatedData \in ManualTestCaseBodies :
        LET testCase == createManualTestCase(currentManualTestCaseId, validatedData)
        IN  /\ currentManualTestCaseId <= MaxCreates
            /\ currentManualTestCaseId' = currentManualTestCaseId + 1
            /\ manualTestCases' =
                    (currentManualTestCaseId :> testCase) @@ manualTestCases
            /\ issued' = [issued EXCEPT !.manualTestCases = Append(@, testCase.id)]
            /\ UNCHANGED <<store, upload, last, submits, patches, handlers,
                           xmlDoc, parsed, testSuites, currentTestSuiteId>>

\* PUT /api/manual-test-cases/:id
PutManualTestCase ==
    \E id \in DOMAIN manualTestCases, updates \in ManualTestCaseUpdates :
        /\ manualTestCases' = [manualTestCases EXCEPT ![id] = Spread(@, updates)]
        /\ UNCHANGED <<store, upload, last, submits, patches, handlers,
                       xmlDoc, parsed, testSuites, currentTestSuiteId,
                       currentManualTestCaseId, issued>>

\* DELETE /api/manual-test-cases/:id
DeleteManualTestCase ==
    \E id \in DOMAIN manualTestCases :
        /\ manualTestCases' = MapDelete(manualTestCases, id)
        /\ UNCHANGED <<store, upload, last, submits, patches, handlers,
                       xmlDoc, parsed, testSuites, currentTestSuiteId,
                       currentManualTestCaseId, issued>>

(* ----------------------------- specification --------------------------- *)
Init ==
    /\ testRuns = <<>>
    /\ testCases = <<>>
    /\ failureAnalyses = <<>>
    /\ currentTestRunId = 1
    /\ currentTestCaseId = 1
    /\ currentFailureAnalysisId = 1
    /\ upload = [pc |-> "idle", run |-> 0, testCases |-> <<>>, i |-> 0]
    /\ last = Other
    /\ submits = 0
    /\ patches = 0
    /\ handlers = [h \in Handlers |-> Idle]
    /\ xmlDoc = Document(SuiteElement(<<>>))
    /\ parsed = NotParsed
    /\ testSuites = <<>>
    /\ currentTestSuiteId = 1
    /\ manualTestCases = <<>>
    /\ currentManualTestCaseId = 1
    /\ issued = [testSuites |-> <<>>, manualTestCases |-> <<>>]

\* the routes, called by any client in any order
Next ==
    \/ JunitUpload
    \/ CreateTestRun
    \/ SubmitBatch
    \/ PatchFailureAnalysis

Spec == Init /\ [][Next]_vars

\* the upload page driving the routes, one upload after the other
FlowNext ==
    \/ UploadFlowStart
    \/ UploadFlowInvalid
    \/ UploadFlowBatch

FlowSpec == Init /\ [][FlowNext]_vars

\* runs are created by the upload route, and the requests in flight proceed
\* in any order
ConcNext ==
    \/ JunitUpload
    \/ \E h \in Handlers : HandlerBegin(h)
    \/ \E h \in Handlers : HandlerCreateCase(h)
    \/ \E h \in Handlers : HandlerCreateAnalysis(h)
    \/ \E h \in Handlers : HandlerGetCases(h)
    \/ \E h \in Handlers : HandlerUpdate(h)

ConcSpec == Init /\ [][ConcNext]_vars

\* the parser applied to any of the documents
ParseInit ==
    /\ testRuns = <<>>
    /\ testCases = <<>>
    /\ failureAnalyses = <<>>
    /\ currentTestRunId = 1
    /\ currentTestCaseId = 1
    /\ currentFailureAnalysisId = 1
    /\ upload = [pc |-> "idle", run |-> 0, testCases |-> <<>>, i |-> 0]
    /\ last = Other
    /\ submits = 0
    /\ patches = 0
    /\ handlers = [h \in Handlers |-> Idle]
    /\ xmlDoc \in Documents
    /\ parsed = NotParsed
    /\ testSuites = <<>>
    /\ currentTestSuiteId = 1
    /\ manualTestCases = <<>>
    /\ currentManualTestCaseId = 1
    /\ issued = [testSuites |-> <<>>, manualTestCases |-> <<>>]

ParseNext == ParseDocument \/ ValidateDocument \/ SummarizeDocument

ParseSpec == ParseInit /\ [][ParseNext]_vars

\* the routes of the manual testing pages, called in any order
ManualNext ==
    \/ PostTestSuite
    \/ PatchTestSuite
    \/ DeleteTestSuite
    \/ PostManualTestCase
    \/ PutManualTestCase
    \/ DeleteManualTestCase

ManualSpec == Init /\ [][ManualNext]_vars

(* ------------------------------ properties ---------------------------- *)
\* the run the last batch was submitted to, after the batch
LastRun == testRuns[last.run]
Processed == last.op = "process" /\ last.found
\* the cases persisted for run id
CasesOf(id) == {i \in DOMAIN testCases : testCases[i].testRunId = id}
\* the cases and the analyses the last batch created
NewCases == last.firstCaseId..(currentTestCaseId - 1)
NewAnalyses == last.firstAnalysisId..(currentFailureAnalysisId - 1)
AnalysesOf(c) == {a \in DOMAIN failureAnalyses : failureAnalyses[a].testCaseId = c}

\* C1: after a batch submission on a run whose cases all have statuses the
\* parser produces, totalTests = passedTests + failedTests + skippedTests
C1_SumInvariant ==
    (Processed /\ \A i \in CasesOf(last.run) : testCases[i].status \in ParsedStatuses)
        => LastRun.totalTests
             = LastRun.passedTests + LastRun.failedTests + LastRun.skippedTests

\* C2: after a batch submission on run R the counters are the counts over the
\* cases persisted for R, with error counted as failed
C2_CountersAreCounts ==
    Processed =>
        LET all == CasesOf(last.run)
        IN  /\ LastRun.totalTests = Cardinality(all)
            /\ LastRun.passedTests
                 = Cardinality({i \in all : testCases[i].status = "passed"})
            /\ LastRun.failedTests
                 = Cardinality({i \in all : testCases[i].status \in {"failed", "error"}})
            /\ LastRun.skippedTests
                 = Cardinality({i \in all : testCases[i].status = "skipped"})

\* C3: submitting the same batch to the same run a second time leaves the
\* four counters as the first submission left them
C3_CounterIdempotence ==
    (Processed /\ last.resubmit) =>
        /\ LastRun.totalTests = last.before.totalTests
        /\ LastRun.passedTests = last.before.passedTests
        /\ LastRun.failedTests = last.before.failedTests
        /\ LastRun.skippedTests = last.before.skippedTests

\* C4: resubmitting an identical batch creates no additional failure analysis
C4_AnalysisIdempotence ==
    (Processed /\ last.resubmit) =>
        Cardinality(DOMAIN failureAnalyses) = last.analysesBefore

\* C5: no two failure analyses have the same testCaseId
C5_UniqueTestCaseId ==
    \A a, b \in DOMAIN failureAnalyses :
        a # b => failureAnalyses[a].testCaseId # failureAnalyses[b].testCaseId

\* C6: a case of the batch has a failure analysis exactly when its status is
\* failed, error or flaky
C6_AnalysisIffFailing ==
    Processed =>
        \A c \in NewCases :
            (AnalysesOf(c) # {}) <=> (testCases[c].status \in {"failed", "error", "flaky"})

\* C7: an analysis created by a batch has status "new", no assignee and no
\* resolution
C7_CreatedAsNew ==
    Processed =>
        \A a \in NewAnalyses :
            /\ failureAnalyses[a].status = "new"
            /\ failureAnalyses[a].assignedTo = Null
            /\ failureAnalyses[a].resolution = Null

\* C8: a batch that is not the caller's final one never moves the run to
\* completed
C8_CompletedOnlyByFinalBatch ==
    (Processed /\ ~last.isFinalBatch /\ last.before.status # "completed")
        => LastRun.status # "completed"

\* C9: a batch submitted to a completed or failed run leaves its status alone
C9_TerminalStatus ==
    (Processed /\ last.before.status \in {"completed", "failed"})
        => LastRun.status = last.before.status

\* C10: when the upload flow has sent its last batch (or had none to send),
\* the run it created is completed
C10_UploadConverges ==
    upload.pc = "done" => testRuns[upload.run].status = "completed"

\* C11: a batch for a run id that does not exist is answered 404 and changes
\* no record and no id counter
C11_UnknownRun ==
    [][(last'.op = "process" /\ submits' # submits
            /\ last'.run \notin DOMAIN testRuns)
        => (last'.response = 404 /\ UNCHANGED store)]_vars

\* a non-empty batch was sent to an unknown run id and answered 404
C11_Witness ==
    /\ last.op = "process"
    /\ last.run \notin DOMAIN testRuns
    /\ Len(last.batch) > 0
    /\ last.response = 404

\* C12: a run created for an automated ingestion starts running, with the
\* four counters at 0, the raw XML stored and no case persisted for it
C12_RunStartsEmpty ==
    (last.op = "create" /\ testRuns[last.run].type = "automated") =>
        /\ testRuns[last.run].status = "running"
        /\ testRuns[last.run].totalTests = 0
        /\ testRuns[last.run].passedTests = 0
        /\ testRuns[last.run].failedTests = 0
        /\ testRuns[last.run].skippedTests = 0
        /\ testRuns[last.run].xmlContent # Null
        /\ CasesOf(last.run) = {}

\* C13: no run exists for a text that is not well-formed XML, unless it is
\* marked failed and has no cases
C13_NoRunForMalformed ==
    \A r \in DOMAIN testRuns :
        testRuns[r].xmlContent = TruncatedXml =>
            (testRuns[r].status = "failed" /\ CasesOf(r) = {})

\* C14: a batch submission that ends in the error path (response 500) has
\* persisted no test case and no failure analysis of that batch
C14_BatchAtomic ==
    (last.op = "process" /\ last.response = 500) =>
        (NewCases = {} /\ NewAnalyses = {})

\* C15: no persisted test case lacks a name or a status
C15_InvalidCaseRejected ==
    \A i \in DOMAIN testCases :
        testCases[i].name # Undefined /\ testCases[i].status # Undefined

\* C16: a step of a batch submission on one run leaves every other run's
\* record, its test cases and their failure analyses as they were
C16_RunsIndependent ==
    [][last'.op = "process" =>
        \A b \in DOMAIN testRuns \ {last'.run} :
            /\ testRuns'[b] = testRuns[b]
            /\ {i \in DOMAIN testCases' : testCases'[i].testRunId = b} = CasesOf(b)
            /\ \A c \in CasesOf(b) :
                    /\ testCases'[c] = testCases[c]
                    /\ {a \in DOMAIN failureAnalyses' :
                            failureAnalyses'[a].testCaseId = c} = AnalysesOf(c)
                    /\ \A a \in AnalysesOf(c) :
                            failureAnalyses'[a] = failureAnalyses[a]]_vars

\* a submission on run a has just been answered 200 while a submission on
\* run b, which has a failed case with its analysis, is still in flight
C16_Witness ==
    \E a, b \in DOMAIN testRuns, h, g \in Handlers :
        /\ a # b
        /\ last.op = "process" /\ last.run = a
        /\ handlers[h].run = a /\ handlers[h].pc = "done"
        /\ handlers[h].response = 200 /\ CasesOf(a) # {}
        /\ handlers[g].run = b /\ handlers[g].pc = "update"
        /\ \E c \in CasesOf(b) : AnalysesOf(c) # {}

C18_StoredStatuses ==
    \A i \in DOMAIN testCases :
        testCases[i].status \in {"passed", "failed", "skipped"}

\* the status the first of failure, error, skipped that is present gives
FirstMatch(caseElement) ==
    IF hasElement(caseElement, "failure") THEN "failed"
    ELSE IF hasElement(caseElement, "error") THEN "error"
    ELSE IF hasElement(caseElement, "skipped") THEN "skipped"
    ELSE "passed"

\* C19: every parsed case has the status of the first match among failure,
\* error, skipped, else passed
C19_StatusPrecedence ==
    parsed.done =>
        LET suites == testSuiteElements(xmlDoc)
        IN  \A s \in 1..Len(suites) :
                LET cases == querySelectorAll(suites[s], "testcase")
                IN  \A k \in 1..Len(cases) :
                        parsed.result.testSuites[s].testCases[k].status
                            = FirstMatch(cases[k])

RECURSIVE CountCases(_, _)
\* the number of cases in the first n parsed suites
CountCases(parsedSuites, n) ==
    IF n = 0 THEN 0
    ELSE CountCases(parsedSuites, n - 1) + Len(parsedSuites[n].testCases)

\* the testsuite elements directly under the root when it is a testsuites
\* element
ChildSuites(doc) ==
    SelectSeq(doc.kids[1].kids, LAMBDA e : e.tag = "testsuite")

\* C20: the parsed cases are as many as the testcase elements of the
\* document, and under a testsuites root the parsed suites are its child
\* testsuite elements
C20_NoDoubleCounting ==
    parsed.done =>
        /\ CountCases(parsed.result.testSuites, Len(parsed.result.testSuites))
                = Len(querySelectorAll(xmlDoc, "testcase"))
        /\ xmlDoc.kids[1].tag = "testsuites" =>
                Len(parsed.result.testSuites) = Len(ChildSuites(xmlDoc))

\* the number of the cases of a parsed suite with status st
CasesWith(testSuite, st) ==
    Cardinality({k \in 1..Len(testSuite.testCases) :
                    testSuite.testCases[k].status = st})

RECURSIVE CountWith(_, _, _)
\* the number of the cases with status st in the first n parsed suites
CountWith(parsedSuites, st, n) ==
    IF n = 0 THEN 0
    ELSE CountWith(parsedSuites, st, n - 1) + CasesWith(parsedSuites[n], st)

\* C21: the failures, errors and skipped counts of every parsed suite are
\* the numbers of its parsed cases with status failed, error and skipped,
\* and the document totals are the sums of these
C21_RecomputedCounts ==
    parsed.done =>
        LET parsedSuites == parsed.result.testSuites
            n == Len(parsedSuites)
        IN  /\ \A k \in 1..n :
                    /\ parsedSuites[k].failures = CasesWith(parsedSuites[k], "failed")
                    /\ parsedSuites[k].errors = CasesWith(parsedSuites[k], "error")
                    /\ parsedSuites[k].skipped = CasesWith(parsedSuites[k], "skipped")
            /\ parsed.result.totalFailures = CountWith(parsedSuites, "failed", n)
            /\ parsed.result.totalErrors = CountWith(parsedSuites, "error", n)
            /\ parsed.result.totalSkipped = CountWith(parsedSuites, "skipped", n)

\* C22: a document without any testsuite element parses to no suites and
\* zero totals, and the validation accepts it
C22_EmptyReportValid ==
    ~hasElement(xmlDoc, "testsuite") =>
        /\ parsed.done =>
                /\ parsed.result.testSuites = <<>>
                /\ parsed.result.totalTests = 0
                /\ parsed.result.totalFailures = 0
                /\ parsed.result.totalErrors = 0
                /\ parsed.result.totalSkipped = 0
        /\ parsed.validated => parsed.valid

\* C23: the summary's passed count is total - failed - error - skipped, and
\* its pass rate is passed / total * 100 rounded to one decimal place, 0 for
\* an empty total (the rate is in hundredths of a percent, so a rate of one
\* decimal place is ten times the rate rounded to tenths)
C23_PassRate ==
    parsed.summarized =>
        LET r == parsed.result
            passed == r.totalTests - r.totalFailures - r.totalErrors - r.totalSkipped
        IN  /\ parsed.summary.passedTests = passed
            /\ parsed.summary.passRate =
                    IF r.totalTests > 0
                    THEN 10 * MathRound(passed * 100 * 10, r.totalTests)
                    ELSE 0

\* the value the time attribute of a testcase element writes, in tenths of a
\* millisecond; 0 without the attribute
Tenths(caseElement) ==
    IF getAttribute(caseElement, "time") = Null THEN 0
    ELSE TimeOf(getAttribute(caseElement, "time")).tenths

\* P(element, parsed case) for every testcase element the parser visited
ForParsedCases(P(_, _)) ==
    LET suites == testSuiteElements(xmlDoc)
    IN  \A s \in 1..Len(suites) :
            LET cases == querySelectorAll(suites[s], "testcase")
            IN  \A k \in 1..Len(cases) :
                    P(cases[k], parsed.result.testSuites[s].testCases[k])

\* C24 as stated: the duration of every case is the time attribute's value
\* in seconds times 1000, rounded half up
C24_HalfUpExact ==
    parsed.done =>
        ForParsedCases(LAMBDA e, c : c.duration = MathRound(Tenths(e), 10))

\* C24: the duration of every case is within half a millisecond of the time
\* attribute's value, is that value when the attribute writes whole
\* milliseconds, and is 0 without the attribute
C24_Duration ==
    parsed.done =>
        ForParsedCases(LAMBDA e, c :
            /\ 10 * c.duration - Tenths(e) \in -5..5
            /\ Tenths(e) % 10 = 0 => 10 * c.duration = Tenths(e)
            /\ getAttribute(e, "time") = Null => c.duration = 0)

\* a case with time="1.234" was parsed to 1234 ms
C24_Witness ==
    /\ parsed.done
    /\ xmlDoc = Document(SuiteElement(<<TimedCase("1.234")>>))
    /\ parsed.result.testSuites[1].testCases[1].duration = 1234

\* C25: no step removes a persisted test case or changes any of its fields
C25_CasesImmutable ==
    [][\A i \in DOMAIN testCases :
            i \in DOMAIN testCases' /\ testCases'[i] = testCases[i]]_vars

\* a batch was processed after an analysis was patched, while cases of an
\* earlier batch were in the store
C25_Witness ==
    /\ last.op = "process" /\ last.found /\ NewCases # {}
    /\ patches > 0
    /\ \E i \in DOMAIN testCases : i < last.firstCaseId

\* C26: the status of every failure analysis is one of new, investigating,
\* in_progress, resolved, wont_fix, duplicate
C26_AnalysisStatuses ==
    \A a \in DOMAIN failureAnalyses :
        failureAnalyses[a].status \in
            {"new", "investigating", "in_progress", "resolved", "wont_fix",
             "duplicate"}

\* C27: after every step each record of a map has the id it is stored under,
\* and no step changes the testCaseId of a failure analysis
C27_KeyIdentity ==
    [][/\ \A k \in DOMAIN testRuns' : testRuns'[k].id = k
       /\ \A k \in DOMAIN testCases' : testCases'[k].id = k
       /\ \A k \in DOMAIN failureAnalyses' : failureAnalyses'[k].id = k
       /\ \A k \in DOMAIN failureAnalyses :
              failureAnalyses'[k].testCaseId = failureAnalyses[k].testCaseId]_vars

\* the ids of a sequence start at 1 and each is greater than the one before
StartsAtOneIncreasing(ids) ==
    /\ Len(ids) > 0 => ids[1] = 1
    /\ \A k \in 1..(Len(ids) - 1) : ids[k] < ids[k + 1]

\* C28: the ids the create responses of each map carried start at 1 and are
\* strictly increasing in creation order, whatever was deleted in between
C28_IdAllocation ==
    /\ StartsAtOneIncreasing(issued.testSuites)
    /\ StartsAtOneIncreasing(issued.manualTestCases)

\* C29: a batch of n cases answered 200 on run R adds exactly n test cases
\* to R, each under a fresh id; the totalProcessed of the response is the
\* number of R's cases and R's stored totalTests; and R's totalTests is not
\* less than before the batch
C29_BatchAccounting ==
    [][(last'.op = "process" /\ submits' # submits /\ last'.response = 200) =>
        LET R == last'.run
            n == Len(last'.batch)
            after == {i \in DOMAIN testCases' : testCases'[i].testRunId = R}
        IN  /\ Cardinality(after) = Cardinality(CasesOf(R)) + n
            /\ after \ CasesOf(R) = currentTestCaseId..(currentTestCaseId' - 1)
            /\ (after \ CasesOf(R)) \cap DOMAIN testCases = {}
            /\ last'.totalProcessed = Cardinality(after)
            /\ testRuns'[R].totalTests = last'.totalProcessed
            /\ testRuns'[R].totalTests >= testRuns[R].totalTests]_vars

\* C30: every failure analysis points at a stored test case that belongs to
\* a stored test run and whose status is failed or flaky
C30_AnalysisReferences ==
    \A a \in DOMAIN failureAnalyses :
        LET c == failureAnalyses[a].testCaseId
        IN  /\ c \in DOMAIN testCases
            /\ testCases[c].testRunId \in DOMAIN testRuns
            /\ testCases[c].status \in {"failed", "flaky"}
====
